---- MODULE Spec2Model ----
(***************************************************************************)
(* Model of m2x/api.py: the messaging (MQTT) transport MQTTAPIBase, the    *)
(* HTTP transport HTTPAPIBase and the per-thread last_response slot of     *)
(* APIBase.                                                                *)
(*                                                                         *)
(* Caller threads execute the methods statement by statement; one action   *)
(* is one statement (or a run of statements touching only thread-local     *)
(* data).  The paho network loop of every created client is a separate     *)
(* execution context that fires the callbacks _on_connect, _on_subscribe   *)
(* and _on_message.                                                        *)
(*                                                                         *)
(* An optional value (Python None / a missing attribute / a missing dict   *)
(* key) is the empty sequence, a present value x is <<x>>.                 *)
(***************************************************************************)
EXTENDS Integers, Sequences, FiniteSets, TLC

\* ---------------------------------------------------------------- bounds
\* number of calls (request or wait_for_response) made overall
MaxCalls == 2
\* largest configured timeout (in poll iterations)
MaxTimeout == 1

Threads == {"t1", "t2"}
Ids == 1..MaxCalls

None == <<>>
Some(x) == <<x>>
Val(o) == o[1]

\* timeout=None (unbounded) or a non-negative integer
Timeouts == {None} \cup {Some(n) : n \in 0..MaxTimeout}

\* reply envelopes {id, status, body}: status and body may be missing
ReplyStatuses == {None, Some(200)}
ReplyBodies == {None, Some("data")}
Replies == [id : Ids, status : ReplyStatuses, body : ReplyBodies]

\* HTTP responses: status code and whether the body is valid JSON
HttpStatuses == {200, 204, 302, 399, 400, 404, 499, 500, 599, 600}
HttpResps == [status_code : HttpStatuses, json_ok : BOOLEAN]

VARIABLES
    \* ---- MQTTAPIBase instance attributes
    timeoutCfg,     \* self.timeout
    mqtt_client,    \* self._mqtt_client: None while the attribute is missing
    responses,      \* self.responses: None while missing, else Some(table)
    ready,          \* self.ready
    \* ---- broker clients; a client is named by the thread that created it
    cstate,         \* "none", "connecting", "subscribing", "subscribed"
    loopStarted,    \* loop_start() was called on the client
    inflight,       \* ids published to the broker and not yet answered
    inbox,          \* replies the broker sent to a client, not yet handled
    \* ---- caller threads
    pc,             \* position of the thread
    ncalls,         \* calls started so far, by all threads
    msg_id,         \* local msg_id
    cl,             \* value the thread got from self.mqtt
    timeout,        \* local timeout of wait_for_response
    ret,            \* what the last finished call returned
    outcome,        \* "none" while running, "returned", or the exception
    last_response,  \* self._locals.last_response, per thread
    hresp,          \* HTTP: resp of the running call
    \* ---- history (not read by the program)
    nextId,         \* ids handed out by uuid4 so far
    sleeps,         \* time.sleep calls of the running wait_for_response
    stored,         \* per id: entries inserted by _on_message
    popped,         \* per id: successful pops
    fresh,          \* per thread: last_response was set by the last call
    \* ---- Response classification
    code,           \* Response.status of the Response under classification
    cls,            \* its success / client_error / server_error / error
    \* ---- url building
    urlArgs,        \* client endpoint, PATH and the parts passed to url()
    urlRes,         \* what APIBase.url and MQTTAPIBase.url return for them
    \* ---- date/time wire encoding (m2x/utils.py)
    dt,             \* the date/time value handed to to_iso
    wire,           \* the string to_iso returns
    back,           \* what from_server makes of that string
    \* ---- HTTP request headers
    hdrs,           \* the caller's headers mappings (objects reused over calls)
    hcall,          \* the running HTTP call: apikey, headers argument
    sent            \* X-M2X-KEY the last request went out with

vars == <<timeoutCfg, mqtt_client, responses, ready, cstate, loopStarted,
          inflight, inbox, pc, ncalls, msg_id, cl, timeout, ret, outcome,
          last_response, hresp, nextId, sleeps, stored, popped, fresh,
          code, cls, urlArgs, urlRes, dt, wire, back, hdrs, hcall, sent>>

\* the state of the two transports
transport == <<timeoutCfg, mqtt_client, responses, ready, cstate,
               loopStarted, inflight, inbox, pc, ncalls, msg_id, cl, timeout,
               ret, outcome, last_response, hresp, nextId, sleeps, stored,
               popped, fresh>>
\* the values the pure functions work on
classified == <<code, cls>>
urls == <<urlArgs, urlRes>>
dates == <<dt, wire, back>>
hdrState == <<hdrs, hcall, sent>>
\* what no step of a transport changes
fixed == <<timeoutCfg, classified, urls, dates, hdrState>>

conn == <<mqtt_client, ready, cstate, loopStarted>>
broker == <<inflight, inbox>>
locals == <<msg_id, cl, timeout>>
results == <<ret, outcome, last_response, fresh>>
history == <<nextId, sleeps, stored, popped>>

\* ------------------------------------------------------------ Response
\* Response.__init__
Response(resp, raw, status, headers, json) ==
    [response |-> resp, raw |-> raw, status |-> status,
     headers |-> headers, json |-> json]

\* MQTTResponse.__init__: response['status'] must exist (else KeyError)
MQTTResponse(reply) ==
    Response(reply, reply, Val(reply.status), {}, reply)

\* HTTPResponse.__init__: json is None when the body does not decode
HTTPResponse(resp) ==
    Response(resp, resp, resp.status_code, {},
             IF resp.json_ok THEN Some("json") ELSE None)

\* a setter that keeps one slot for all threads (no threading.local)
SetLastResponseShared(lr, t, value) == [x \in DOMAIN lr |-> Some(value)]

\* last_response setter: writes the slot of the calling thread only
SetLastResponse(lr, t, value) == [lr EXCEPT ![t] = Some(value)]

\* last_response getter: getattr(self._locals, 'last_response', None)
GetLastResponse(t) == last_response[t]

\* ------------------------------------------------------------ helpers
Table == Val(responses)
Keys == IF responses = None THEN {} ELSE DOMAIN Table

\* dict insertion  d[k] = v
DictSet(d, k, v) == [x \in (DOMAIN d) \cup {k} |-> IF x = k THEN v ELSE d[x]]
\* dict after d.pop(k)
DictPop(d, k) == [x \in (DOMAIN d) \ {k} |-> d[x]]
EmptyDict == [x \in {} |-> None]

\* value returned by a call: None, or a value taken from a reply or an
\* HTTP response `of` (its body, the whole of it, the error that carries it)
RetNone == None
RetBody(reply) == Some([kind |-> "body", of |-> reply])
RetReply(reply) == Some([kind |-> "reply", of |-> reply])
RetJson(resp) == Some([kind |-> "json", of |-> resp])
RetRaw(resp) == Some([kind |-> "raw", of |-> resp])
RetError(resp) == Some([kind |-> "error", of |-> resp])

\* uuid.uuid4().hex: a token that was not handed out before
uuid4 == nextId + 1

\* the call of thread t ends: it returns value or raises
Finish(t, how, value) ==
    /\ pc' = [pc EXCEPT ![t] = "idle"]
    /\ outcome' = [outcome EXCEPT ![t] = how]
    /\ ret' = [ret EXCEPT ![t] = value]

\* a call of thread t starts
Start(t, at) ==
    /\ pc[t] = "idle"
    /\ ncalls < MaxCalls
    /\ ncalls' = ncalls + 1
    /\ pc' = [pc EXCEPT ![t] = at]
    /\ outcome' = [outcome EXCEPT ![t] = "none"]
    /\ ret' = [ret EXCEPT ![t] = None]
    /\ fresh' = [fresh EXCEPT ![t] = FALSE]
    /\ sleeps' = [sleeps EXCEPT ![t] = 0]

\* ------------------------------------------------------------ Init
\* no value is being classified, built, encoded or sent
ClassifyIdle == code = None /\ cls = None
UrlIdle == urlArgs = None /\ urlRes = None
DateIdle == dt = None /\ wire = None /\ back = None
HeadersIdle == hdrs = None /\ hcall = None /\ sent = None

\* the transport object right after construction
InitTransport ==
    /\ timeoutCfg \in Timeouts
    /\ mqtt_client = None
    /\ responses = None
    /\ ready = FALSE
    /\ cstate = [c \in Threads |-> "none"]
    /\ loopStarted = [c \in Threads |-> FALSE]
    /\ inflight = {}
    /\ inbox = [c \in Threads |-> {}]
    /\ pc = [t \in Threads |-> "idle"]
    /\ ncalls = 0
    /\ msg_id = [t \in Threads |-> 0]
    /\ cl = [t \in Threads |-> None]
    /\ timeout = [t \in Threads |-> None]
    /\ ret = [t \in Threads |-> None]
    /\ outcome = [t \in Threads |-> "none"]
    /\ last_response = [t \in Threads |-> None]
    /\ hresp = [t \in Threads |-> None]
    /\ nextId = 0
    /\ sleeps = [t \in Threads |-> 0]
    /\ stored = [i \in Ids |-> 0]
    /\ popped = [i \in Ids |-> 0]
    /\ fresh = [t \in Threads |-> FALSE]

Init ==
    /\ InitTransport
    /\ ClassifyIdle /\ UrlIdle /\ DateIdle /\ HeadersIdle

\* ------------------------------------------------- MQTTAPIBase.request
\* request(), lines 226-233: choose the correlation id, build the envelope,
\* then the first statement of the mqtt property (line 174):
\* hasattr(self, '_mqtt_client')
Request(t) ==
    /\ Start(t, IF mqtt_client # None THEN "publish" ELSE "init_responses")
    /\ msg_id' = [msg_id EXCEPT ![t] = uuid4]
    /\ nextId' = uuid4
    /\ cl' = [cl EXCEPT ![t] = mqtt_client]
    /\ UNCHANGED <<fixed, conn, responses, broker, timeout,
                   last_response, hresp, stored, popped>>

\* mqtt property, line 175: self.responses = {}
InitResponses(t) ==
    /\ pc[t] = "init_responses"
    /\ responses' = Some(EmptyDict)
    /\ pc' = [pc EXCEPT ![t] = "init_ready"]
    /\ UNCHANGED <<fixed, conn, broker, ncalls, locals, results, hresp,
                   history>>

\* mqtt property, line 176: self.ready = False
InitReady(t) ==
    /\ pc[t] = "init_ready"
    /\ ready' = FALSE
    /\ pc' = [pc EXCEPT ![t] = "connect"]
    /\ UNCHANGED <<fixed, mqtt_client, cstate, loopStarted, responses,
                   broker, ncalls, locals, results, hresp, history>>

\* mqtt property, lines 177-182: create the client, set the callbacks, connect
Connect(t) ==
    /\ pc[t] = "connect"
    /\ cstate' = [cstate EXCEPT ![t] = "connecting"]
    /\ pc' = [pc EXCEPT ![t] = "set_client"]
    /\ UNCHANGED <<fixed, mqtt_client, ready, loopStarted, responses,
                   broker, ncalls, locals, results, hresp, history>>

\* mqtt property, line 183: self._mqtt_client = client
SetClient(t) ==
    /\ pc[t] = "set_client"
    /\ mqtt_client' = Some(t)
    /\ pc' = [pc EXCEPT ![t] = "loop_start"]
    /\ UNCHANGED <<fixed, ready, cstate, loopStarted, responses,
                   broker, ncalls, locals, results, hresp, history>>

\* mqtt property, line 185: self._mqtt_client.loop_start()
LoopStart(t) ==
    /\ pc[t] = "loop_start"
    /\ loopStarted' = [loopStarted EXCEPT ![Val(mqtt_client)] = TRUE]
    /\ pc' = [pc EXCEPT ![t] = "wait_ready"]
    /\ UNCHANGED <<fixed, mqtt_client, ready, cstate, responses,
                   broker, ncalls, locals, results, hresp, history>>

\* mqtt property, lines 186-188: leave the sleep loop once ready, return
WaitReady(t) ==
    /\ pc[t] = "wait_ready"
    /\ ready
    /\ cl' = [cl EXCEPT ![t] = mqtt_client]
    /\ pc' = [pc EXCEPT ![t] = "publish"]
    /\ UNCHANGED <<fixed, conn, responses, broker, ncalls, msg_id,
                   timeout, results, hresp, history>>

\* a test of the publish status that lets every status through
SucceededAlways(ok) == TRUE

\* line 236: status == MQTT_ERR_SUCCESS
Succeeded(ok) == ok

\* request(), lines 233-237: publish (the broker gets the envelope when the
\* publish succeeds); on success enter wait_for_response (line 209:
\* timeout = self.timeout), otherwise return None
Publish(t, ok) ==
    /\ pc[t] = "publish"
    /\ cl' = [cl EXCEPT ![t] = None]
    /\ inflight' = IF ok THEN inflight \cup {msg_id[t]} ELSE inflight
    /\ IF Succeeded(ok)
       THEN /\ timeout' = [timeout EXCEPT ![t] = timeoutCfg]
            /\ pc' = [pc EXCEPT ![t] = "poll"]
            /\ UNCHANGED <<ret, outcome>>
       ELSE /\ Finish(t, "returned", RetNone)
            /\ UNCHANGED timeout
    /\ UNCHANGED <<fixed, conn, responses, inbox, ncalls, msg_id,
                   last_response, fresh, hresp, history>>

\* ---------------------------------------- MQTTAPIBase.wait_for_response
\* a direct call of the public method wait_for_response(id), line 209
WaitCall(t, id) ==
    /\ Start(t, "poll")
    /\ msg_id' = [msg_id EXCEPT ![t] = id]
    /\ timeout' = [timeout EXCEPT ![t] = timeoutCfg]
    /\ UNCHANGED <<fixed, conn, responses, broker, cl, last_response,
                   hresp, nextId, stored, popped>>

\* the countdown of lines 213-217: the local timeout after one iteration,
\* and whether the loop goes on
TimeoutNext(to) == IF to # None /\ Val(to) > 0 THEN Some(Val(to) - 1) ELSE to
TimeoutContinue(to) == to = None \/ Val(to) > 0

\* lines 211-217, one evaluation of the loop condition
\* `msg_id not in self.responses` (AttributeError while self.responses does
\* not exist) and, when the id is missing, one iteration of the body: sleep,
\* then count down or break (the sleeps of an unbounded wait are not counted)
Poll(t) ==
    /\ pc[t] = "poll"
    /\ IF responses = None
       THEN /\ Finish(t, "AttributeError", RetNone)
            /\ timeout' = [timeout EXCEPT ![t] = None]
            /\ UNCHANGED sleeps
       ELSE IF msg_id[t] \in Keys
       THEN /\ pc' = [pc EXCEPT ![t] = "check"]
            /\ UNCHANGED <<ret, outcome, timeout, sleeps>>
       ELSE /\ sleeps' = [sleeps EXCEPT ![t] =
                            IF timeout[t] = None THEN @ ELSE @ + 1]
            /\ timeout' = [timeout EXCEPT ![t] = TimeoutNext(@)]
            /\ pc' = [pc EXCEPT ![t] =
                        IF TimeoutContinue(timeout[t]) THEN "poll" ELSE "check"]
            /\ UNCHANGED <<ret, outcome>>
    /\ UNCHANGED <<fixed, conn, responses, broker, ncalls, msg_id, cl,
                   last_response, fresh, hresp, nextId, stored, popped>>

\* line 218: if msg_id in self.responses (else the method returns None)
Check(t) ==
    /\ pc[t] = "check"
    /\ IF msg_id[t] \in Keys
       THEN /\ pc' = [pc EXCEPT ![t] = "pop"]
            /\ UNCHANGED <<ret, outcome, timeout>>
       ELSE /\ Finish(t, "returned", RetNone)
            /\ timeout' = [timeout EXCEPT ![t] = None]
    /\ UNCHANGED <<fixed, conn, responses, broker, ncalls, msg_id, cl,
                   last_response, fresh, hresp, history>>

\* a lookup that leaves the entry in the table (get instead of pop)
PopTableKeeps(d, k) == d

\* line 219: self.responses.pop(msg_id), the table afterwards
PopTable(d, k) == DictPop(d, k)

\* lines 221-223: the reply's body if present, otherwise the whole reply
Returned(reply) ==
    IF reply.body # None THEN RetBody(reply) ELSE RetReply(reply)

\* lines 219-223: pop the entry (KeyError when it is gone), record the
\* MQTTResponse (KeyError when the reply has no status), return
Pop(t) ==
    /\ pc[t] = "pop"
    /\ timeout' = [timeout EXCEPT ![t] = None]
    /\ IF msg_id[t] \notin Keys
       THEN /\ Finish(t, "KeyError", RetNone)
            /\ UNCHANGED <<responses, popped, last_response, fresh>>
       ELSE LET reply == Table[msg_id[t]] IN
            /\ responses' = Some(PopTable(Table, msg_id[t]))
            /\ popped' = [popped EXCEPT ![msg_id[t]] = @ + 1]
            /\ IF reply.status = None
               THEN /\ Finish(t, "KeyError", RetNone)
                    /\ UNCHANGED <<last_response, fresh>>
               ELSE /\ last_response' =
                         SetLastResponse(last_response, t, MQTTResponse(reply))
                    /\ fresh' = [fresh EXCEPT ![t] = TRUE]
                    /\ Finish(t, "returned", Returned(reply))
    /\ UNCHANGED <<fixed, conn, broker, ncalls, msg_id, cl, hresp,
                   nextId, sleeps, stored>>

\* ------------------------------------------------ the receive context
\* _on_connect, lines 190-191: the client subscribes to the reply topic
OnConnect(c) ==
    /\ loopStarted[c]
    /\ cstate[c] = "connecting"
    /\ cstate' = [cstate EXCEPT ![c] = "subscribing"]
    /\ UNCHANGED <<fixed, mqtt_client, ready, loopStarted, responses,
                   broker, pc, ncalls, locals, results, hresp, history>>

\* _on_subscribe, lines 197-198
OnSubscribe(c) ==
    /\ loopStarted[c]
    /\ cstate[c] = "subscribing"
    /\ cstate' = [cstate EXCEPT ![c] = "subscribed"]
    /\ ready' = TRUE
    /\ UNCHANGED <<fixed, mqtt_client, loopStarted, responses,
                   broker, pc, ncalls, locals, results, hresp, history>>

\* the broker answers a published request on m2x/{apikey}/responses: every
\* client whose subscription it holds gets the reply
BrokerReply(msg) ==
    /\ msg.id \in inflight
    /\ inflight' = inflight \ {msg.id}
    /\ inbox' = [c \in Threads |->
                   IF cstate[c] \in {"subscribing", "subscribed"}
                   THEN inbox[c] \cup {msg} ELSE inbox[c]]
    /\ UNCHANGED <<fixed, conn, responses, pc, ncalls, locals, results,
                   hresp, history>>

\* an insertion under a key other than the reply's own id
StoreReplyWrongKey(d, msg) == DictSet(d, (msg.id % MaxCalls) + 1, msg)

\* line 195: self.responses[msg['id']] = msg, the table afterwards
StoreReply(d, msg) == DictSet(d, msg.id, msg)

\* _on_message, lines 193-195
OnMessage(c, msg) ==
    /\ loopStarted[c]
    /\ cstate[c] = "subscribed"
    /\ msg \in inbox[c]
    /\ inbox' = [inbox EXCEPT ![c] = @ \ {msg}]
    /\ responses' = Some(StoreReply(Table, msg))
    /\ stored' = [stored EXCEPT ![msg.id] = @ + 1]
    /\ UNCHANGED <<fixed, conn, inflight, pc, ncalls, locals, results,
                   hresp, nextId, sleeps, popped>>

\* --------------------------------------------------- HTTPAPIBase.request
\* lines 145-154: build the request and send it; the session returns resp
HttpRequest(t, resp) ==
    /\ Start(t, "http_record")
    /\ hresp' = [hresp EXCEPT ![t] = Some(resp)]
    /\ UNCHANGED <<fixed, conn, responses, broker, locals,
                   last_response, nextId, stored, popped>>

\* line 154: session.request fails (no connection) and raises
HttpFail(t) ==
    /\ Start(t, "http_failed")
    /\ hresp' = [hresp EXCEPT ![t] = None]
    /\ UNCHANGED <<fixed, conn, responses, broker, locals,
                   last_response, nextId, stored, popped>>

\* the exception of line 154 leaves request()
HttpRaise(t) ==
    /\ pc[t] = "http_failed"
    /\ Finish(t, "ConnectionError", RetNone)
    /\ UNCHANGED <<fixed, conn, responses, broker, ncalls, locals,
                   last_response, fresh, hresp, history>>

\* line 155: self.last_response = HTTPResponse(resp)
HttpRecord(t) ==
    /\ pc[t] = "http_record"
    /\ last_response' =
         SetLastResponse(last_response, t, HTTPResponse(Val(hresp[t])))
    /\ fresh' = [fresh EXCEPT ![t] = TRUE]
    /\ pc' = [pc EXCEPT ![t] = "http_return"]
    /\ UNCHANGED <<fixed, conn, responses, broker, ncalls, locals,
                   ret, outcome, hresp, history>>

\* line 160, resp.raise_for_status() of the requests library: it raises
\* HTTPError for a 4xx or 5xx status code
RaisesForStatus(status) == 400 <= status /\ status < 600

\* an outcome without the 204 case: the empty body goes to the JSON decoder
HttpOutcomeNo204(resp) ==
    IF RaisesForStatus(resp.status_code)
    THEN [how |-> "HTTPError", value |-> RetError(resp)]
    ELSE IF resp.json_ok
    THEN [how |-> "returned", value |-> RetJson(resp)]
    ELSE [how |-> "returned", value |-> RetRaw(resp)]

\* lines 157-164: how the call ends, and with what
HttpOutcome(resp) ==
    IF resp.status_code = 204
    THEN [how |-> "returned", value |-> RetNone]
    ELSE IF RaisesForStatus(resp.status_code)
    THEN [how |-> "HTTPError", value |-> RetError(resp)]
    ELSE IF resp.json_ok
    THEN [how |-> "returned", value |-> RetJson(resp)]
    ELSE [how |-> "returned", value |-> RetRaw(resp)]

\* lines 157-164
HttpReturn(t) ==
    /\ pc[t] = "http_return"
    /\ Finish(t, HttpOutcome(Val(hresp[t])).how, HttpOutcome(Val(hresp[t])).value)
    /\ UNCHANGED <<fixed, conn, responses, broker, ncalls, locals,
                   last_response, fresh, hresp, history>>

\* ------------------------------------------------------ specifications
\* the messaging transport: caller threads and the receive context
Next ==
    \/ \E t \in Threads : Request(t)
    \/ \E t \in Threads : InitResponses(t)
    \/ \E t \in Threads : InitReady(t)
    \/ \E t \in Threads : Connect(t)
    \/ \E t \in Threads : SetClient(t)
    \/ \E t \in Threads : LoopStart(t)
    \/ \E t \in Threads : WaitReady(t)
    \/ \E t \in Threads, ok \in BOOLEAN : Publish(t, ok)
    \/ \E t \in Threads, id \in Ids : WaitCall(t, id)
    \/ \E t \in Threads : Poll(t)
    \/ \E t \in Threads : Check(t)
    \/ \E t \in Threads : Pop(t)
    \/ \E c \in Threads : OnConnect(c)
    \/ \E c \in Threads : OnSubscribe(c)
    \/ \E msg \in Replies : BrokerReply(msg)
    \/ \E c \in Threads, msg \in Replies : OnMessage(c, msg)

Spec == Init /\ [][Next]_vars

\* the HTTP transport: caller threads on one HTTPAPIBase object
InitHttp == Init /\ timeoutCfg = None

NextHttp ==
    \/ \E t \in Threads, resp \in HttpResps : HttpRequest(t, resp)
    \/ \E t \in Threads : HttpFail(t)
    \/ \E t \in Threads : HttpRaise(t)
    \/ \E t \in Threads : HttpRecord(t)
    \/ \E t \in Threads : HttpReturn(t)

SpecHttp == InitHttp /\ [][NextHttp]_vars

\* ------------------------------------------------ Response classification
\* largest status code classified (and, negated, the smallest)
MaxStatus == 610
StatusRange == (0 - MaxStatus)..MaxStatus

\* Response.success
Success(st) == st >= 200 /\ st < 300
\* Response.client_error
ClientError(st) == st >= 400 /\ st < 500
\* Response.server_error
ServerError(st) == st >= 500
\* Response.error
Error(st) == ClientError(st) \/ ServerError(st)

\* a Response with any integer status is built
InitClassify ==
    /\ InitTransport /\ timeoutCfg = None
    /\ code \in {Some(st) : st \in StatusRange} /\ cls = None
    /\ UrlIdle /\ DateIdle /\ HeadersIdle

\* the four properties of the Response are read
Classify ==
    /\ cls = None
    /\ cls' = Some([success |-> Success(Val(code)),
                    client_error |-> ClientError(Val(code)),
                    server_error |-> ServerError(Val(code)),
                    error |-> Error(Val(code))])
    /\ UNCHANGED <<transport, code, urls, dates, hdrState>>

NextClassify == Classify

SpecClassify == InitClassify /\ [][NextClassify]_vars

\* ------------------------------------------------------------ URL building
\* longest path part, and most path parts passed to url()
MaxPartLen == 3
MaxParts == 2

\* a string is a sequence of characters
Chars == {"/", "a"}
Strs == UNION {[1..n -> Chars] : n \in 0..MaxPartLen}
\* a path part is None or a string
Parts == {None} \cup {Some(s) : s \in Strs}
PartLists == UNION {[1..n -> Parts] : n \in 0..MaxParts}
\* client.endpoint, with and without a trailing slash
Endpoints == {<<"e">>, <<"e", "/">>}
\* PATH of APIBase ('/') and of subclasses with a version prefix
Paths == {<<"/">>, <<"/", "a">>, <<"a", "/">>}
Variants == {"http", "mqtt"}

\* bool(p) as filter(None, ...) applies it: None and '' are dropped
Truthy(p) == p # None /\ Val(p) # <<>>

RECURSIVE LStrip(_)
LStrip(s) == IF s # <<>> /\ Head(s) = "/" THEN LStrip(Tail(s)) ELSE s

RECURSIVE RStrip(_)
RStrip(s) ==
    IF s # <<>> /\ s[Len(s)] = "/" THEN RStrip(SubSeq(s, 1, Len(s) - 1)) ELSE s

\* p.strip('/')
Strip(s) == RStrip(LStrip(s))

\* filter(None, parts) keeping every part (not the library's behaviour)
FilterKeepsAll(parts) == parts

\* filter(None, parts)
Filter(parts) == SelectSeq(parts, Truthy)

\* map(lambda p: p.strip('/'), parts), on parts that passed the filter
MapStrip(parts) ==
    [i \in 1..Len(parts) |->
        IF parts[i] = None THEN <<>> ELSE Strip(Val(parts[i]))]

\* '/'.join(strs)
RECURSIVE Join(_)
Join(strs) ==
    IF strs = <<>> THEN <<>>
    ELSE IF Len(strs) = 1 THEN strs[1]
    ELSE strs[1] \o <<"/">> \o Join(Tail(strs))

\* APIBase.url
APIBase_url(endpoint, PATH, parts) ==
    Join(MapStrip(Filter(<<Some(endpoint), Some(PATH)>> \o parts)))

\* MQTTAPIBase.url
MQTTAPIBase_url(PATH, parts) ==
    <<"/">> \o Join(MapStrip(Filter(<<Some(PATH)>> \o parts)))

\* url() of the variant's class
Url(a) ==
    IF a.variant = "http" THEN APIBase_url(a.endpoint, a.PATH, a.parts)
    ELSE MQTTAPIBase_url(a.PATH, a.parts)

\* an API object of either variant and the parts of a url() call
InitUrl ==
    /\ InitTransport /\ timeoutCfg = None
    /\ ClassifyIdle /\ DateIdle /\ HeadersIdle
    /\ urlArgs \in {Some([variant |-> v, endpoint |-> e, PATH |-> p, parts |-> ps]) :
                       v \in Variants, e \in Endpoints, p \in Paths,
                       ps \in PartLists}
    /\ urlRes = None

\* url(*parts)
CallUrl ==
    /\ urlRes = None
    /\ urlRes' = Some(Url(Val(urlArgs)))
    /\ UNCHANGED <<transport, classified, urlArgs, dates, hdrState>>

\* the parts with e put in before position i
InsertAt(parts, i, e) ==
    SubSeq(parts, 1, i - 1) \o <<e>> \o SubSeq(parts, i, Len(parts))

\* the parts without the one at position i
RemoveAt(parts, i) ==
    SubSeq(parts, 1, i - 1) \o SubSeq(parts, i + 1, Len(parts))

\* url() called again with one more empty-string or None part
UrlWithEmptyPart(i, e) ==
    /\ urlRes # None
    /\ Len(Val(urlArgs).parts) < MaxParts
    /\ i \in 1..(Len(Val(urlArgs).parts) + 1)
    /\ ~Truthy(e)
    /\ urlArgs' = Some([Val(urlArgs) EXCEPT !.parts = InsertAt(@, i, e)])
    /\ urlRes' = Some(Url(Val(urlArgs')))
    /\ UNCHANGED <<transport, classified, dates, hdrState>>

\* url() called again with one empty-string or None part left out
UrlWithoutEmptyPart(i) ==
    /\ urlRes # None
    /\ i \in 1..Len(Val(urlArgs).parts)
    /\ ~Truthy(Val(urlArgs).parts[i])
    /\ urlArgs' = Some([Val(urlArgs) EXCEPT !.parts = RemoveAt(@, i)])
    /\ urlRes' = Some(Url(Val(urlArgs')))
    /\ UNCHANGED <<transport, classified, dates, hdrState>>

NextUrl ==
    \/ CallUrl
    \/ \E i \in 1..(MaxParts + 1), e \in Parts : UrlWithEmptyPart(i, e)
    \/ \E i \in 1..MaxParts : UrlWithoutEmptyPart(i)

SpecUrl == InitUrl /\ [][NextUrl]_vars

\* ------------------------------------------------------- date/time helpers
\* latest hour of a value, and largest UTC offset (in hours) of its tzinfo
MaxHour == 5
MaxOffset == 1

Hours == 0..MaxHour
\* the microsecond field: its least, a middle and its greatest value
Micros == {0, 1, 999999}
\* tzinfo: None (naive) or a fixed offset from UTC
TzInfos == {None} \cup {Some(o) : o \in (0 - MaxOffset)..MaxOffset}
\* iso8601.UTC
UTC == Some(0)

\* a datetime (wall-clock fields and tzinfo) or a date (no time, no tzinfo)
DateTimes ==
    {[kind |-> "datetime", hour |-> h, microsecond |-> us, tz |-> tz] :
        h \in Hours, us \in Micros, tz \in TzInfos}
Dates == {[kind |-> "date", hour |-> 0, microsecond |-> 0, tz |-> None]}
\* field names from_server is called with for timestamps
DateNames == {"timestamp", "created"}

\* the outcome of a call that raised e
Raised(e) == [kind |-> e, hour |-> 0, microsecond |-> 0, tz |-> None]

\* dtime.replace(tzinfo=tz): the wall-clock fields stay, the zone is relabelled
ReplaceTz(d, tz) == [d EXCEPT !.tz = tz]

\* strftime('%Y-%m-%dT%H:%M:%S.%fZ'): the wall-clock fields and a literal Z
Strftime(d) == [hour |-> d.hour, microsecond |-> d.microsecond, zone |-> "Z"]

\* to_iso(dtime), for a datetime
to_iso(d) == Strftime(ReplaceTz(d, UTC))

\* iso8601.parse_date(text): the fields read back, Z read as UTC
parse_date(text) ==
    [kind |-> "datetime", hour |-> text.hour, microsecond |-> text.microsecond,
     tz |-> IF text.zone = "Z" THEN UTC ELSE None]

\* from_server(name, value)
from_server(name, value) ==
    IF name = "tags"
    THEN [kind |-> "list", hour |-> value.hour,
          microsecond |-> value.microsecond, tz |-> None]
    ELSE parse_date(value)

\* a value a payload may carry
InitDate ==
    /\ InitTransport /\ timeoutCfg = None
    /\ ClassifyIdle /\ UrlIdle /\ HeadersIdle
    /\ dt \in {Some(d) : d \in DateTimes \cup Dates}
    /\ wire = None /\ back = None

\* DateTimeJSONEncoder.default(value) -> to_iso(value), value a datetime
ToIso ==
    /\ wire = None /\ back = None
    /\ Val(dt).kind = "datetime"
    /\ wire' = Some(to_iso(Val(dt)))
    /\ UNCHANGED <<transport, classified, urls, dt, back, hdrState>>

\* to_iso(value), value a date: date.replace() takes no tzinfo
ToIsoRaises ==
    /\ wire = None /\ back = None
    /\ Val(dt).kind = "date"
    /\ back' = Some(Raised("TypeError"))
    /\ UNCHANGED <<transport, classified, urls, dt, wire, hdrState>>

\* from_server(name, text) on the text to_iso produced
FromServer(name) ==
    /\ wire # None /\ back = None
    /\ back' = Some(from_server(name, Val(wire)))
    /\ UNCHANGED <<transport, classified, urls, dt, wire, hdrState>>

NextDate ==
    \/ ToIso
    \/ ToIsoRaises
    \/ \E name \in DateNames : FromServer(name)

SpecDate == InitDate /\ [][NextDate]_vars

\* --------------------------------------- HTTPAPIBase.request: the headers
\* self.apikey, the key the session is created with
DefaultKey == "k0"
\* the apikey argument of request(): absent, empty, or an override key
ApiKeys == {None, Some(""), Some("k1"), Some("k2")}
\* headers mappings the caller holds and may pass as headers=...
Mappings == {"m1", "m2"}
\* the headers argument: absent, or one of the caller's mappings
HeaderArgs == {None} \cup {Some(m) : m \in Mappings}

\* `if apikey:` (line 147)
HasOverride(apikey) == apikey # None /\ Val(apikey) # ""

\* the X-M2X-KEY entry of each of the caller's mappings (None: no entry)
\* and of the session's default headers (None: no session yet)
InitHeaders ==
    /\ InitTransport /\ timeoutCfg = None
    /\ ClassifyIdle /\ UrlIdle /\ DateIdle
    /\ hdrs = Some([session |-> None, maps |-> [m \in Mappings |-> None]])
    /\ hcall = None /\ sent = None

\* kwargs['headers']['X-M2X-KEY'] = apikey, kwargs['headers'] being the
\* caller's mapping m
SetHeader(maps, m, key) == [maps EXCEPT ![m] = Some(key)]

\* request(), lines 147-149: with an override, take the headers argument
\* (setdefault creates a dict only when none was passed) and set the key
\* in it; `key` is the X-M2X-KEY of the headers the call will pass on
PrepareHeaders(apikey, h) ==
    /\ hcall = None
    /\ LET H == Val(hdrs)
           maps == IF HasOverride(apikey) /\ h # None
                   THEN SetHeader(H.maps, Val(h), Val(apikey)) ELSE H.maps
           key == IF HasOverride(apikey) THEN apikey
                  ELSE IF h # None THEN H.maps[Val(h)] ELSE None
       IN  /\ hdrs' = Some([H EXCEPT !.maps = maps])
           /\ hcall' = Some([apikey |-> apikey, headers |-> h, key |-> key])
    /\ UNCHANGED <<transport, classified, urls, dates, sent>>

\* the session property, lines 131-139: created on first use with self.apikey
Session(H) == IF H.session = None THEN Some(DefaultKey) ELSE H.session

\* line 154: self.session.request(method, url, **kwargs); the headers of the
\* call take precedence over the session's for this one request
SendRequest ==
    /\ hcall # None
    /\ LET H == Val(hdrs)
           c == Val(hcall)
       IN  /\ hdrs' = Some([H EXCEPT !.session = Session(H)])
           /\ sent' = Some([apikey |-> c.apikey, headers |-> c.headers,
                            key |-> IF c.key # None THEN Val(c.key)
                                    ELSE Val(Session(H))])
    /\ hcall' = None
    /\ UNCHANGED <<transport, classified, urls, dates>>

NextHeaders ==
    \/ \E apikey \in ApiKeys, h \in HeaderArgs : PrepareHeaders(apikey, h)
    \/ SendRequest

SpecHeaders == InitHeaders /\ [][NextHeaders]_vars

\* ================================================================ claims
Finished(t) == pc[t] = "idle" /\ outcome[t] # "none"
Clients == {c \in Threads : cstate[c] # "none"}

\* C1: whatever wait_for_response(X) returns other than None is taken from
\* the reply whose id is X: that reply's body if it has one, otherwise the
\* whole reply; it is never data of a reply with another id.
C1_ReturnsOwnReply ==
    \A t \in Threads :
        (Finished(t) /\ ret[t] # None) =>
            /\ outcome[t] = "returned"
            /\ Val(ret[t]).of.id = msg_id[t]
            /\ Val(ret[t]).kind =
                 (IF Val(ret[t]).of.body # None THEN "body" ELSE "reply")

\* C1 witness: two requests are outstanding and the later one (id 2) has
\* got its reply while the reply for id 1 has not been stored yet.
C1_Witness ==
    \E t \in Threads :
        /\ Finished(t) /\ ret[t] # None
        /\ msg_id[t] = 2 /\ Val(ret[t]).of.id = 2
        /\ 1 \in inflight /\ stored[1] = 0
        /\ \E u \in Threads \ {t} : msg_id[u] = 1 /\ pc[u] = "poll"

\* C2 (as claimed): a request envelope is published only while ready is
\* True, i.e. every step that hands an envelope to the broker is taken
\* with ready = True.
C2_PublishOnlyWhenReady ==
    [][\A t \in Threads :
           (pc[t] = "publish" /\ msg_id[t] \in inflight' \ inflight)
               => ready]_vars

\* C3 (as claimed): at most one broker client is ever created and
\* connected for the transport instance.
C3_AtMostOneClient == Cardinality(Clients) <= 1

\* C4: a stored reply is consumed by at most one wait_for_response call
\* (per id there are never more successful pops, plus the entry still in the
\* table, than insertions), and right after a pop the id is no longer a key
\* of the pending-reply table.
C4_PoppedAtMostOnce ==
    [][\A i \in Ids :
           popped'[i] # popped[i] =>
               /\ popped'[i] = popped[i] + 1
               /\ i \notin Keys'
               /\ popped'[i] <= stored'[i]]_vars

\* C4 witness: two waiters for the same id raced for one stored reply; one
\* obtained it, the other's pop failed with KeyError.
C4_Witness ==
    \E t, u \in Threads :
        /\ t # u /\ msg_id[t] = msg_id[u] /\ msg_id[t] \in Ids
        /\ Finished(t) /\ outcome[t] = "returned" /\ ret[t] # None
        /\ Finished(u) /\ outcome[u] = "KeyError"
        /\ stored[msg_id[t]] = 1 /\ popped[msg_id[t]] = 1

\* C5 (as claimed): once every call has returned and every reply has been
\* sent and handled, the pending-reply table is empty.
Quiescent ==
    /\ \A t \in Threads : pc[t] = "idle"
    /\ inflight = {}
    /\ \A c \in Threads : inbox[c] = {}
C5_TableEmptyWhenQuiescent == Quiescent => Keys = {}

\* C6 (as claimed): with timeout N and no reply with the awaited id ever
\* stored, wait_for_response sleeps at most N times.
C6_AtMostNSleeps ==
    \A t \in Threads :
        (timeoutCfg # None /\ msg_id[t] \in Ids /\ stored[msg_id[t]] = 0)
            => sleeps[t] <= Val(timeoutCfg)

\* C8: a thread's last_response slot changes only in a step of that thread
\* that records a Response, and the value is the Response of the reply (or
\* HTTP response) that this thread's own call obtained; so what a thread
\* reads is None or a Response its own request recorded.
C8_LastResponseIsolated ==
    [][\A t \in Threads :
           last_response'[t] # last_response[t] =>
               \/ /\ pc[t] = "pop" /\ msg_id[t] \in Keys
                  /\ last_response'[t] = Some(MQTTResponse(Table[msg_id[t]]))
               \/ /\ pc[t] = "http_record"
                  /\ last_response'[t] = Some(HTTPResponse(Val(hresp[t])))]_vars

\* C8 witness: both threads have recorded a Response, each its own.
C8_Witness ==
    /\ \A t \in Threads :
           /\ Finished(t) /\ GetLastResponse(t) # None
           /\ Val(GetLastResponse(t)).raw.id = msg_id[t]
    /\ \E t, u \in Threads : GetLastResponse(t) # GetLastResponse(u)

\* C9 (as claimed): after a request() call has finished, last_response does
\* not still hold the Response of an earlier call: it is None or was set by
\* the call that just finished.
C9_LastResponseFresh ==
    \A t \in Threads :
        Finished(t) => (GetLastResponse(t) = None \/ fresh[t])

\* C10: the outcome of an HTTP call by status code: 204 returns None; a
\* status in 400..599 fails with an HTTP error carrying the response (and so
\* its status); any other status returns the decoded JSON body, or the raw
\* response when the body is not valid JSON.
C10_HttpStatusPolicy ==
    \A t \in Threads :
        (Finished(t) /\ hresp[t] # None) =>
            LET resp == Val(hresp[t])
                st == resp.status_code
            IN  IF st = 204
                THEN outcome[t] = "returned" /\ ret[t] = None
                ELSE IF st >= 400 /\ st <= 599
                THEN /\ outcome[t] = "HTTPError"
                     /\ ret[t] = Some([kind |-> "error", of |-> resp])
                ELSE /\ outcome[t] = "returned"
                     /\ ret[t] = Some([kind |-> IF resp.json_ok THEN "json"
                                                ELSE "raw",
                                       of |-> resp])

\* C10 witness: one thread got None for a 204, the other an HTTP error for
\* a 599.
C10_Witness ==
    \E t, u \in Threads :
        /\ Finished(t) /\ hresp[t] # None /\ Val(hresp[t]).status_code = 204
        /\ ret[t] = None
        /\ Finished(u) /\ hresp[u] # None /\ Val(hresp[u]).status_code = 599
        /\ outcome[u] = "HTTPError"

\* C11 (as claimed): for every integer status, success holds exactly for
\* 200..299, client_error exactly for 400..499, server_error exactly for
\* 500..599, error exactly when client_error or server_error holds, and
\* success and error are never both true.
C11_ClassificationRanges ==
    cls # None =>
        LET st == Val(code)
            c == Val(cls)
        IN  /\ c.success <=> (200 <= st /\ st <= 299)
            /\ c.client_error <=> (400 <= st /\ st <= 499)
            /\ c.server_error <=> (500 <= st /\ st <= 599)
            /\ c.error <=> (c.client_error \/ c.server_error)
            /\ ~(c.success /\ c.error)

\* the string has two slashes in a row
HasEmptySegment(s) == \E i \in 1..(Len(s) - 1) : s[i] = "/" /\ s[i + 1] = "/"

\* the part of an url() result after the base endpoint
AfterEndpoint(a, s) ==
    IF a.variant = "http"
    THEN SubSeq(s, Len(Strip(a.endpoint)) + 1, Len(s))
    ELSE s

\* C12 (as claimed): for every endpoint, PATH and parts (parts of slashes
\* only, such as the default PATH '/', and parts with inner slashes included)
\* the string url() returns has no empty segment: no '//' after the base
\* endpoint and no trailing '/' (the messaging root '/' alone is let through).
C12_NoEmptySegment ==
    urlRes # None =>
        LET s == Val(urlRes)
            rest == AfterEndpoint(Val(urlArgs), s)
        IN  /\ ~HasEmptySegment(rest)
            /\ rest # <<>> /\ rest # <<"/">> => rest[Len(rest)] # "/"

\* C13: a url() call that differs from the one before only by empty-string or
\* None parts put in or left out, at any position, returns the same string,
\* for the HTTP and the messaging variant.
C13_EmptyPartsIgnored ==
    [][(urlRes # None /\ urlRes' # None) => urlRes' = urlRes]_vars

\* C13 witness: url() has returned a non-trivial string for parts that hold a
\* None, an empty string or both next to a non-empty part
C13_Witness ==
    /\ urlRes # None
    /\ \E i, j \in 1..Len(Val(urlArgs).parts) :
          /\ ~Truthy(Val(urlArgs).parts[i])
          /\ Truthy(Val(urlArgs).parts[j])
          /\ Strip(Val(Val(urlArgs).parts[j])) # <<>>

\* the instant a value denotes, in hours and microseconds of UTC (a naive
\* value and a date are read as UTC)
Instant(d) ==
    <<d.hour - (IF d.tz = None THEN 0 ELSE Val(d.tz)), d.microsecond>>

\* C14 (as claimed): for every datetime value, values with a non-zero UTC
\* offset included, to_iso followed by from_server yields a UTC-tagged
\* datetime that denotes the same instant, to the microsecond.
C14_RoundTripSameInstant ==
    (back # None /\ Val(dt).kind = "datetime") =>
        /\ Val(back).kind = "datetime"
        /\ Val(back).tz = UTC
        /\ Instant(Val(back)) = Instant(Val(dt))

\* this step is the first evaluation of the loop condition of thread t's
\* wait_for_response (for a bounded wait, whose sleeps are counted)
FirstCheck(t) ==
    /\ pc[t] = "poll" /\ timeout[t] # None /\ sleeps[t] = 0
    /\ (pc'[t] # "poll" \/ sleeps'[t] # sleeps[t])

\* C15 (as claimed): a reply stored before the requesting thread's first
\* check, and not taken by anyone, is found by that first check: the wait
\* leaves the loop for the pop without having slept.
C15_EarlyReplyFound ==
    [][\A t \in Threads :
          (FirstCheck(t) /\ stored[msg_id[t]] > 0 /\ popped[msg_id[t]] = 0)
              => (pc'[t] = "check" /\ sleeps'[t] = 0 /\ msg_id[t] \in Keys)]_vars

\* this step ends the wait_for_response of thread t on an existing table
WaitEnds(t) ==
    /\ pc[t] \in {"poll", "check", "pop"} /\ pc'[t] = "idle"
    /\ responses # None

\* C16 (as claimed, the part finite runs can refute): with the timeout
\* configured as None, wait_for_response(X) never gives up: when it ends, it
\* has returned the reply with id X, after that reply was stored.
C16_UnboundedWaitReturnsReply ==
    [][\A t \in Threads :
          (timeoutCfg = None /\ WaitEnds(t)) =>
              /\ outcome'[t] = "returned"
              /\ ret'[t] # None
              /\ Val(ret'[t]).of.id = msg_id[t]
              /\ stored[msg_id[t]] > 0]_vars

\* this step is a publish of thread t that did not hand the envelope over
PublishFails(t) ==
    /\ pc[t] = "publish" /\ pc'[t] # "publish"
    /\ msg_id[t] \notin inflight'

\* C17: when publish reports a status other than success, request() returns
\* None in that very step: it does not enter the wait, does not poll or
\* sleep, does not raise, and leaves the pending-reply table and every
\* thread's last_response as they were.
C17_PublishFailureReturnsNone ==
    [][\A t \in Threads :
          PublishFails(t) =>
              /\ pc'[t] = "idle"
              /\ outcome'[t] = "returned" /\ ret'[t] = None
              /\ sleeps'[t] = 0 /\ timeout'[t] = None
              /\ responses' = responses
              /\ last_response' = last_response]_vars

\* C17 witness: a thread whose earlier request recorded a response has made
\* a second request whose publish failed, and got None without sleeping
C17_Witness ==
    \E t \in Threads :
        /\ Finished(t) /\ outcome[t] = "returned" /\ ret[t] = None
        /\ msg_id[t] = 2 /\ msg_id[t] \notin inflight
        /\ stored[2] = 0 /\ sleeps[t] = 0
        /\ last_response[t] # None /\ ~fresh[t]
        /\ timeoutCfg # None

\* C18 (as claimed): an entry leaves the pending-reply table only through
\* the pop of a wait_for_response for that entry's own id; no other step
\* (another caller's lazy initialisation, another reply, another waiter's
\* timeout) removes it.
C18_RemovedOnlyByOwnPop ==
    [][\A i \in Ids :
          (i \in Keys /\ i \notin Keys') =>
              \E t \in Threads :
                  /\ pc[t] = "pop" /\ msg_id[t] = i
                  /\ popped'[i] = popped[i] + 1]_vars

\* C19 (as claimed): consuming and recording go together: whenever a
\* wait_for_response takes an entry out of the pending-reply table, for any
\* reply including one without a status field, the calling thread's
\* last_response becomes the Response built from that reply and the call
\* returns the reply's data rather than failing.
C19_ConsumedIsRecorded ==
    [][\A i \in Ids :
          popped'[i] > popped[i] =>
              \E t \in Threads :
                  /\ pc[t] = "pop" /\ msg_id[t] = i
                  /\ last_response'[t] # None
                  /\ Val(last_response'[t]).response = Table[i]
                  /\ outcome'[t] = "returned"
                  /\ ret'[t] = Returned(Table[i])]_vars

\* C20 (as claimed): an apikey override affects only its own call: the
\* session's default X-M2X-KEY stays the configured key, the caller's headers
\* mappings get no X-M2X-KEY entry, and a request made without an override,
\* whatever mapping it passes, is sent with the default key.
C20_OverrideIsPerCall ==
    /\ Val(hdrs).session \in {None, Some(DefaultKey)}
    /\ \A m \in Mappings : Val(hdrs).maps[m] = None
    /\ (sent # None /\ ~HasOverride(Val(sent).apikey)) =>
           Val(sent).key = DefaultKey

====
